---- MODULE Spec2Model ----
(***************************************************************************)
(* Model of simplematrixbotlib.config.Config: the join_on_invite flag, the *)
(* allowlist and the blocklist (sets of compiled regular expressions),     *)
(* their validating setters and add/remove methods, and the TOML save and  *)
(* load of the three fields.                                               *)
(*                                                                         *)
(* A Python string is a sequence of one-character strings.  A Python       *)
(* value that may sit in a list is a record [type, s]: type "str" is a     *)
(* plain string, type "Pattern" the re.Pattern compiled from the source s. *)
(***************************************************************************)
EXTENDS Integers, Sequences, FiniteSets, TLC

(* ---------------------------- bounds ---------------------------------- *)
\* largest candidate set / mapping entry handed to one call
MaxCandidates == 2
\* number of threads of the concurrent host
MaxThreads == 2
\* how many times a pattern may have gone through save_toml
MaxRender == 1

(* ------------------------- Python values ------------------------------ *)
Str(s) == [type |-> "str", s |-> s]

Pattern(s) == [type |-> "Pattern", s |-> s]

\* the pattern sources callers supply: two that compile, two that do not
GoodSources == { <<"a", ".", "*">>, <<"^", "c">> }

BadSources == { <<"b", "[">>, <<"*", "a">> }

Sources == GoodSources \cup BadSources

\* the sender identifiers asked about
Identifiers == { <<"a">>, <<"c">>, <<"b", "c">>, <<"c", "a">>, <<"d">> }

(* --------------------------- re.compile ------------------------------- *)
\* index of the "]" closing the character set opened at p[i], 0 if none;
\* a "]" directly after "[" or "[^" is a literal member of the set
ClassEnd(p, i) ==
    LET first == IF i + 1 <= Len(p) /\ p[i + 1] = "^" THEN i + 3 ELSE i + 2
        ends  == { j \in first..Len(p) : p[j] = "]" }
    IN  IF ends = {} THEN 0
        ELSE CHOOSE j \in ends : \A k \in ends : j <= k

\* the parse of p from index i on: depth counts the open groups, prev is
\* what was parsed last ("none", "at", "atom" or "repeat")
RECURSIVE ParseFrom(_, _, _, _)
ParseFrom(p, i, depth, prev) ==
    IF i > Len(p) THEN depth = 0
    ELSE LET ch == p[i] IN
         CASE ch = "[" -> /\ ClassEnd(p, i) # 0
                          /\ ParseFrom(p, ClassEnd(p, i) + 1, depth, "atom")
           [] ch = "(" -> ParseFrom(p, i + 1, depth + 1, "none")
           [] ch = ")" -> /\ depth > 0
                          /\ ParseFrom(p, i + 1, depth - 1, "atom")
           [] ch = "*" -> /\ prev = "atom"
                          /\ ParseFrom(p, i + 1, depth, "repeat")
           [] ch \in {"^", "$"} -> ParseFrom(p, i + 1, depth, "at")
           [] OTHER -> ParseFrom(p, i + 1, depth, "atom")

\* re.compile(s) does not raise re.error
Compiles(s) == ParseFrom(s, 1, 0, "none")

\* re.compile(v): a compiled pattern is returned as it is, a string is
\* compiled; only asked of values for which CompileOk holds
CompileOk(v) == v.type = "Pattern" \/ Compiles(v.s)

ReCompile(v) == Pattern(v.s)

(* ------------------------ re.Pattern.search --------------------------- *)
\* index of the ")" closing the group whose body is being scanned at j
RECURSIVE GroupClose(_, _, _)
GroupClose(p, j, depth) ==
    CASE p[j] = "[" -> GroupClose(p, ClassEnd(p, j) + 1, depth)
      [] p[j] = "(" -> GroupClose(p, j + 1, depth + 1)
      [] p[j] = ")" -> IF depth = 1 THEN j ELSE GroupClose(p, j + 1, depth - 1)
      [] OTHER -> GroupClose(p, j + 1, depth)

\* last index of the atom that starts at p[i]
AtomEnd(p, i) ==
    CASE p[i] = "[" -> ClassEnd(p, i)
      [] p[i] = "(" -> GroupClose(p, i + 1, 1)
      [] OTHER -> i

\* does the character set p[i..e] accept the character ch
ClassAccepts(p, i, e, ch) ==
    LET neg     == p[i + 1] = "^"
        from    == IF neg THEN i + 2 ELSE i + 1
        members == { p[k] : k \in from..(e - 1) }
    IN  (ch \in members) # neg

RECURSIVE MatchSeq(_, _, _, _, _)
RECURSIVE AtomStep(_, _, _, _, _)
RECURSIVE StarClosure(_, _, _, _, _)

\* the offsets of s reached from an offset of K by one match of the atom
\* p[i..e]
AtomStep(p, i, e, s, K) ==
    CASE p[i] = "^" -> K \cap {0}
      [] p[i] = "$" -> K \cap {Len(s)}
      [] p[i] = "." -> { k + 1 : k \in { x \in K : x < Len(s) } }
      [] p[i] = "[" -> { k + 1 : k \in { x \in K : /\ x < Len(s)
                                                  /\ ClassAccepts(p, i, e, s[x + 1]) } }
      [] p[i] = "(" -> MatchSeq(p, i + 1, e - 1, s, K)
      [] OTHER -> { k + 1 : k \in { x \in K : x < Len(s) /\ s[x + 1] = p[i] } }

\* the offsets reached by zero or more matches of the atom p[i..e]
StarClosure(p, i, e, s, K) ==
    LET N == K \cup AtomStep(p, i, e, s, K)
    IN  IF N = K THEN K ELSE StarClosure(p, i, e, s, N)

\* the offsets reached from an offset of K by a match of p[i..j]
MatchSeq(p, i, j, s, K) ==
    IF i > j THEN K
    ELSE LET e == AtomEnd(p, i) IN
         IF e + 1 <= j /\ p[e + 1] = "*"
         THEN MatchSeq(p, e + 2, j, s, StarClosure(p, i, e, s, K))
         ELSE MatchSeq(p, e + 1, j, s, AtomStep(p, i, e, s, K))

\* pattern.search(s) finds a match somewhere in s
Search(pattern, s) == MatchSeq(pattern.s, 1, Len(pattern.s), s, 0..Len(s)) # {}

(* ------------------------------ state --------------------------------- *)
VARIABLES
    join_on_invite,   \* Config._join_on_invite
    allowlist,        \* Config._allowlist: a set of Pattern values
    blocklist,        \* Config._blocklist: a set of Pattern values
    file,             \* the TOML document on disk, or NoFile
    call,             \* the most recent call on the store: [op, value]
    again,            \* the most recent call repeats the call before it
    ret,              \* the value the most recent call returned
    stdout,           \* the candidates named by the lines the most recent call printed
    start,            \* the lists the concurrent callers started from
    pc,               \* per thread: where the thread is in its call
    req,              \* per thread: the call [op, value] it was given
    checked,          \* per thread: the local variable checked
    loaded            \* per thread: the value of self._<list> it has read

store == <<join_on_invite, allowlist, blocklist>>

threads == <<start, pc, req, checked, loaded>>

vars == <<join_on_invite, allowlist, blocklist, file, call, again, ret, stdout,
          start, pc, req, checked, loaded>>

(* --------------------------- call inputs ------------------------------ *)
\* the candidate sets handed to the setters and the add_/remove_ methods
CandidateSets ==
    { S \in SUBSET { Str(s) : s \in Sources } : Cardinality(S) <= MaxCandidates }

AllValid(value) == \A v \in value : CompileOk(v)

Compiled(value) == { ReCompile(v) : v \in value }

(* ------------------------ field and key names ------------------------- *)
\* a name is its count of leading underscores and the rest of it
Name(u, base) == [underscores |-> u, base |-> base]

\* the dataclass fields of Config
Fields == { Name(1, "join_on_invite"), Name(1, "allowlist"), Name(1, "blocklist") }

strip_leading_underscore(tmp) ==
    IF tmp.underscores > 0 THEN Name(tmp.underscores - 1, tmp.base) ELSE tmp

existing_fields == { strip_leading_underscore(f) : f \in Fields }

(* ------------------------- _check_set_regex --------------------------- *)
\* a slip of _check_set_regex: a candidate that does not compile is skipped
\* and the rest of the batch is still returned
check_set_regex_skipping(value) ==
    [none |-> FALSE,
     new_list |-> { ReCompile(v) : v \in { w \in value : CompileOk(w) } }]

\* none: the method returned None; new_list: the set it returned otherwise
check_set_regex(value) ==
    IF \A v \in value : CompileOk(v)
    THEN [none |-> FALSE, new_list |-> { ReCompile(v) : v \in value }]
    ELSE [none |-> TRUE, new_list |-> {}]

\* a slip of _check_set_regex: the except branch returns without printing
check_set_regex_silent(value) == { {} }

\* what a call of _check_set_regex may print, as the set of the candidates its
\* lines name: nothing, or the one line naming the first candidate of the
\* iteration that does not compile (a set is iterated in no fixed order)
check_set_regex_prints(value) ==
    IF \A v \in value : CompileOk(v)
    THEN { {} }
    ELSE { {v.s} : v \in { w \in value : ~CompileOk(w) } }

(* ------------------- the setters and add_/remove_ --------------------- *)
\* self._allowlist after `self.allowlist = value`
after_allowlist_setter(old, value) ==
    LET chk == check_set_regex(value)
    IN  IF chk.none THEN old ELSE chk.new_list

\* a slip of add_allowlist: the symmetric difference in place of the union
after_add_allowlist_toggling(old, value) ==
    LET chk == check_set_regex(value)
    IN  IF chk.none THEN old
        ELSE (old \ chk.new_list) \cup (chk.new_list \ old)

\* self._allowlist after add_allowlist(value)
after_add_allowlist(old, value) ==
    LET chk == check_set_regex(value)
    IN  IF chk.none THEN old ELSE old \cup chk.new_list

\* self._allowlist after remove_allowlist(value)
after_remove_allowlist(old, value) ==
    LET chk == check_set_regex(value)
    IN  IF chk.none THEN old ELSE old \ chk.new_list

\* a slip of the blocklist setter: the value is compiled without the check
after_blocklist_setter_unchecked(old, value) == { ReCompile(v) : v \in value }

\* self._blocklist after `self.blocklist = value`
after_blocklist_setter(old, value) ==
    LET chk == check_set_regex(value)
    IN  IF chk.none THEN old ELSE chk.new_list

\* self._blocklist after add_blocklist(value)
after_add_blocklist(old, value) ==
    LET chk == check_set_regex(value)
    IN  IF chk.none THEN old ELSE old \cup chk.new_list

\* a slip of remove_blocklist: the intersection in place of the difference
after_remove_blocklist_keeping(old, value) ==
    LET chk == check_set_regex(value)
    IN  IF chk.none THEN old ELSE old \cap chk.new_list

\* self._blocklist after remove_blocklist(value)
after_remove_blocklist(old, value) ==
    LET chk == check_set_regex(value)
    IN  IF chk.none THEN old ELSE old \ chk.new_list

\* the bookkeeping of one completed call: what was called, what it returned
Returned(op, value, result) ==
    /\ call' = [op |-> op, value |-> value]
    /\ again' = (call.op = op /\ call.value = value)
    /\ ret' = result
    /\ UNCHANGED threads

allowlist_setter(value) ==
    /\ allowlist' = after_allowlist_setter(allowlist, value)
    /\ stdout' \in check_set_regex_prints(value)
    /\ UNCHANGED <<join_on_invite, blocklist, file>>
    /\ Returned("allowlist_setter", value, "None")

add_allowlist(value) ==
    /\ allowlist' = after_add_allowlist(allowlist, value)
    /\ stdout' \in check_set_regex_prints(value)
    /\ UNCHANGED <<join_on_invite, blocklist, file>>
    /\ Returned("add_allowlist", value, "None")

remove_allowlist(value) ==
    /\ allowlist' = after_remove_allowlist(allowlist, value)
    /\ stdout' \in check_set_regex_prints(value)
    /\ UNCHANGED <<join_on_invite, blocklist, file>>
    /\ Returned("remove_allowlist", value, "None")

blocklist_setter(value) ==
    /\ blocklist' = after_blocklist_setter(blocklist, value)
    /\ stdout' \in check_set_regex_prints(value)
    /\ UNCHANGED <<join_on_invite, allowlist, file>>
    /\ Returned("blocklist_setter", value, "None")

add_blocklist(value) ==
    /\ blocklist' = after_add_blocklist(blocklist, value)
    /\ stdout' \in check_set_regex_prints(value)
    /\ UNCHANGED <<join_on_invite, allowlist, file>>
    /\ Returned("add_blocklist", value, "None")

remove_blocklist(value) ==
    /\ blocklist' = after_remove_blocklist(blocklist, value)
    /\ stdout' \in check_set_regex_prints(value)
    /\ UNCHANGED <<join_on_invite, allowlist, file>>
    /\ Returned("remove_blocklist", value, "None")

join_on_invite_setter(value) ==
    /\ join_on_invite' = value
    /\ stdout' = {}
    /\ UNCHANGED <<allowlist, blocklist, file>>
    /\ Returned("join_on_invite_setter", value, "None")

(* -------------------------- _load_config_dict ------------------------- *)
\* a mapping is a set of items with distinct keys; an item carries its value
\* in b when it is a boolean and in l when it is a collection of patterns
Item(key, b, l) == [key |-> key, b |-> b, l |-> l]

HasKey(config_dict, key) == \E item \in config_dict : item.key = key

Get(config_dict, key) == CHOOSE item \in config_dict : item.key = key

\* a slip of _load_config_dict: the test of the key is missing
known_items_unfiltered(config_dict) == config_dict

\* the items the loop does not skip
known_items(config_dict) ==
    { item \in config_dict : item.key \in existing_fields }

\* the three fields after _load_config_dict(config_dict): setattr on a
\* property name runs the property's setter, setattr on the name of the
\* dataclass field itself would assign the field as given
after_load_join_on_invite(old, config_dict) ==
    LET known == known_items(config_dict)
    IN  IF HasKey(known, Name(1, "join_on_invite"))
        THEN Get(known, Name(1, "join_on_invite")).b
        ELSE IF HasKey(known, Name(0, "join_on_invite"))
        THEN Get(known, Name(0, "join_on_invite")).b
        ELSE old

\* a slip of _load_config_dict: the field is assigned, not the property
after_load_allowlist_verbatim(old, config_dict) ==
    IF HasKey(known_items(config_dict), Name(0, "allowlist"))
    THEN Get(config_dict, Name(0, "allowlist")).l
    ELSE old

after_load_allowlist(old, config_dict) ==
    LET known == known_items(config_dict)
    IN  IF HasKey(known, Name(1, "allowlist"))
        THEN Get(known, Name(1, "allowlist")).l
        ELSE IF HasKey(known, Name(0, "allowlist"))
        THEN after_allowlist_setter(old, Get(known, Name(0, "allowlist")).l)
        ELSE old

after_load_blocklist(old, config_dict) ==
    LET known == known_items(config_dict)
    IN  IF HasKey(known, Name(1, "blocklist"))
        THEN Get(known, Name(1, "blocklist")).l
        ELSE IF HasKey(known, Name(0, "blocklist"))
        THEN after_blocklist_setter(old, Get(known, Name(0, "blocklist")).l)
        ELSE old

\* what the setters run by _load_config_dict may print
load_prints(config_dict) ==
    LET of(base) ==
            IF HasKey(known_items(config_dict), Name(0, base))
            THEN check_set_regex_prints(Get(config_dict, Name(0, base)).l)
            ELSE { {} }
    IN  { a \cup b : a \in of("allowlist"), b \in of("blocklist") }

load_config_dict(config_dict) ==
    /\ join_on_invite' = after_load_join_on_invite(join_on_invite, config_dict)
    /\ allowlist' = after_load_allowlist(allowlist, config_dict)
    /\ blocklist' = after_load_blocklist(blocklist, config_dict)
    /\ stdout' \in load_prints(config_dict)
    /\ UNCHANGED file
    /\ Returned("load_config_dict", config_dict, "None")

\* the mappings handed to _load_config_dict: each known key absent or
\* present, with or without two keys that are no property of Config
MappingLists ==
    { {},
      { Str(<<"^", "c">>) },
      { Str(<<"a", ".", "*">>), Str(<<"b", "[">>) } }

JoinItems ==
    { {} } \cup { { Item(Name(0, "join_on_invite"), b, {}) } : b \in BOOLEAN }

ListItems(base) ==
    { {} } \cup { { Item(Name(0, base), FALSE, l) } : l \in MappingLists }

UnknownItems ==
    { {},
      { Item(Name(1, "allowlist"), FALSE, { Str(<<"b", "[">>) }),
        Item(Name(0, "homeserver"), TRUE, {}) } }

Mappings ==
    { j \cup a \cup b \cup u : j \in JoinItems, a \in ListItems("allowlist"),
                               b \in ListItems("blocklist"), u \in UnknownItems }

(* ----------------------- save_toml and load_toml ---------------------- *)
NoFile == [exists |-> FALSE, simplematrixbotlib |-> [config |-> {}]]

\* asdict(self): the (name, value) pairs of the dataclass fields; a set of
\* patterns is rebuilt from copies of its members, which are the members
asdict_pairs ==
    { Item(Name(1, "join_on_invite"), join_on_invite, {}),
      Item(Name(1, "allowlist"), FALSE, { v : v \in allowlist }),
      Item(Name(1, "blocklist"), FALSE, { v : v \in blocklist }) }

config_dict_factory(tmp) ==
    [simplematrixbotlib |->
        [config |-> { Item(strip_leading_underscore(item.key), item.b, item.l) :
                      item \in tmp }]]

\* repr() of a compiled pattern: re.compile('<source>')
Repr(pattern) ==
    <<"r", "e", ".", "c", "o", "m", "p", "i", "l", "e", "(", "'">>
        \o pattern.s \o <<"'", ")">>

\* toml.dump writes a str as a TOML string; any other object that is not a
\* number, a date or iterable is written as the TOML string of its repr()
toml_dump_value(v) == IF v.type = "str" THEN v ELSE Str(Repr(v))

\* the document toml.dump writes for tmp: a set is written as an array of
\* its dumped members
toml_dump(tmp) ==
    [exists |-> TRUE,
     simplematrixbotlib |->
        [config |-> { Item(item.key, item.b, { toml_dump_value(v) : v \in item.l }) :
                      item \in tmp.simplematrixbotlib.config }]]

\* how many times the source s has been written by save_toml
RECURSIVE RenderDepth(_)
RenderDepth(s) ==
    IF /\ Len(s) >= 14
       /\ SubSeq(s, 1, 12) = <<"r", "e", ".", "c", "o", "m", "p", "i", "l", "e", "(", "'">>
       /\ SubSeq(s, Len(s) - 1, Len(s)) = <<"'", ")">>
    THEN 1 + RenderDepth(SubSeq(s, 13, Len(s) - 2))
    ELSE 0

save_toml ==
    /\ \A v \in allowlist \cup blocklist : RenderDepth(v.s) < MaxRender
    /\ file' = toml_dump(config_dict_factory(asdict_pairs))
    /\ stdout' = {}
    /\ UNCHANGED store
    /\ Returned("save_toml", {}, "None")

load_toml ==
    /\ file.exists
    /\ LET config_dict == file.simplematrixbotlib.config IN
         /\ join_on_invite' = after_load_join_on_invite(join_on_invite, config_dict)
         /\ allowlist' = after_load_allowlist(allowlist, config_dict)
         /\ blocklist' = after_load_blocklist(blocklist, config_dict)
         /\ stdout' \in load_prints(config_dict)
    /\ UNCHANGED file
    /\ Returned("load_toml", {}, "None")

(* --------------------------- is_authorized ---------------------------- *)
PyBool(b) == IF b THEN "True" ELSE "False"

\* a slip of the query: the allowlist is consulted before the blocklist
isAuthorized_allowlist_first(identifier) ==
    IF allowlist = {} THEN ~(\E p \in blocklist : Search(p, identifier))
    ELSE IF \E p \in allowlist : Search(p, identifier) THEN TRUE
    ELSE FALSE

\* the authorization query over the two lists
isAuthorized(identifier) ==
    IF \E p \in blocklist : Search(p, identifier) THEN FALSE
    ELSE IF allowlist = {} THEN TRUE
    ELSE IF \E p \in allowlist : Search(p, identifier) THEN TRUE
    ELSE FALSE

is_authorized(identifier) ==
    /\ stdout' = {}
    /\ UNCHANGED <<store, file>>
    /\ Returned("is_authorized", identifier, PyBool(isAuthorized(identifier)))

(* ------------------- one caller: the specification -------------------- *)
Idle == [t \in 1..MaxThreads |-> "idle"]

NoReq == [t \in 1..MaxThreads |-> [op |-> "none", value |-> {}]]

NoLocal == [t \in 1..MaxThreads |-> {}]

\* Config(): the dataclass defaults
Init ==
    /\ join_on_invite = TRUE
    /\ allowlist = {}
    /\ blocklist = {}
    /\ file = NoFile
    /\ call = [op |-> "Config", value |-> {}]
    /\ again = FALSE
    /\ ret = "None"
    /\ stdout = {}
    /\ start = [allowlist |-> {}, blocklist |-> {}]
    /\ pc = Idle
    /\ req = NoReq
    /\ checked = NoLocal
    /\ loaded = NoLocal

Next ==
    \/ \E value \in CandidateSets : allowlist_setter(value)
    \/ \E value \in CandidateSets : add_allowlist(value)
    \/ \E value \in CandidateSets : remove_allowlist(value)
    \/ \E value \in CandidateSets : blocklist_setter(value)
    \/ \E value \in CandidateSets : add_blocklist(value)
    \/ \E value \in CandidateSets : remove_blocklist(value)
    \/ \E value \in BOOLEAN : join_on_invite_setter(value)
    \/ \E config_dict \in Mappings : load_config_dict(config_dict)
    \/ \E identifier \in Identifiers : is_authorized(identifier)

Spec == Init /\ [][Next]_vars

(* ------------- one caller and the TOML file: SpecToml ----------------- *)
NextToml ==
    \/ \E value \in CandidateSets : allowlist_setter(value)
    \/ \E value \in CandidateSets : blocklist_setter(value)
    \/ \E value \in BOOLEAN : join_on_invite_setter(value)
    \/ save_toml
    \/ load_toml

SpecToml == Init /\ [][NextToml]_vars

TypeOK ==
    /\ join_on_invite \in BOOLEAN
    /\ \A v \in allowlist \cup blocklist : v.type = "Pattern"
    /\ ret \in {"None", "True", "False"}

(* ------------- callers on several threads: SpecThreads ---------------- *)
ListOps ==
    { "allowlist_setter", "add_allowlist", "remove_allowlist",
      "blocklist_setter", "add_blocklist", "remove_blocklist" }

OnAllowlist(op) == op \in { "allowlist_setter", "add_allowlist", "remove_allowlist" }

IsSetter(op) == op \in { "allowlist_setter", "blocklist_setter" }

IsAdd(op) == op \in { "add_allowlist", "add_blocklist" }

\* a thread enters one of the six methods and runs its first statement,
\* checked = self._check_set_regex(value), and the test of checked
thread_check(t, op, value) ==
    /\ pc[t] = "idle"
    /\ req' = [req EXCEPT ![t] = [op |-> op, value |-> value]]
    /\ LET chk == check_set_regex(value) IN
         /\ checked' = [checked EXCEPT ![t] = chk.new_list]
         /\ pc' = [pc EXCEPT ![t] = IF chk.none THEN "done"
                                    ELSE IF IsSetter(op) THEN "store"
                                    ELSE "load"]
    /\ stdout' \in check_set_regex_prints(value)
    /\ UNCHANGED <<store, file, call, again, ret, start, loaded>>

\* the right-hand side of the last statement reads self._allowlist (or
\* self._blocklist)
thread_load(t) ==
    /\ pc[t] = "load"
    /\ loaded' = [loaded EXCEPT ![t] = IF OnAllowlist(req[t].op) THEN allowlist
                                        ELSE blocklist]
    /\ pc' = [pc EXCEPT ![t] = "store"]
    /\ UNCHANGED <<store, file, call, again, ret, stdout, start, req, checked>>

\* the last statement assigns the field
thread_store(t) ==
    /\ pc[t] = "store"
    /\ LET new == IF IsSetter(req[t].op) THEN checked[t]
                  ELSE IF IsAdd(req[t].op) THEN loaded[t] \cup checked[t]
                  ELSE loaded[t] \ checked[t]
       IN  IF OnAllowlist(req[t].op)
           THEN allowlist' = new /\ UNCHANGED blocklist
           ELSE blocklist' = new /\ UNCHANGED allowlist
    /\ pc' = [pc EXCEPT ![t] = "done"]
    /\ UNCHANGED <<join_on_invite, file, call, again, ret, stdout, start, req,
                   checked, loaded>>

\* the lists the threads find: any the one-caller operations can leave
InitThreads ==
    /\ join_on_invite = TRUE
    /\ allowlist \in { {}, Compiled({ Str(s) : s \in GoodSources }) }
    /\ blocklist = {}
    /\ file = NoFile
    /\ call = [op |-> "Config", value |-> {}]
    /\ again = FALSE
    /\ ret = "None"
    /\ stdout = {}
    /\ start = [allowlist |-> allowlist, blocklist |-> blocklist]
    /\ pc = Idle
    /\ req = NoReq
    /\ checked = NoLocal
    /\ loaded = NoLocal

NextThreads ==
    \E t \in 1..MaxThreads :
        \/ \E op \in ListOps, value \in CandidateSets : thread_check(t, op, value)
        \/ thread_load(t)
        \/ thread_store(t)

SpecThreads == InitThreads /\ [][NextThreads]_vars

(* ====================== the claims, C1 to C10 ========================= *)
Sources_of(list) == { v.s : v \in list }

IsListCall(c) == c.op \in ListOps

(* ---- C1 ---- *)
\* C1: a call of a setter, add_ or remove_ method whose candidate set holds a
\* string that does not compile leaves both lists exactly as they were: no
\* candidate of the call, valid or not, is added or removed.
C1_AllOrNothing ==
    [][ (IsListCall(call') /\ ~AllValid(call'.value))
            => (allowlist' = allowlist /\ blocklist' = blocklist) ]_vars

\* add_allowlist({"b[", "^c"}) was called on the allowlist {"a.*"}, which is
\* still {"a.*"}
C1_Witness ==
    /\ call.op = "add_allowlist"
    /\ call.value = { Str(<<"b", "[">>), Str(<<"^", "c">>) }
    /\ allowlist = { Pattern(<<"a", ".", "*">>) }

(* ---- C2 ---- *)
\* C2: in every state reached from Config() by the setters, the add_ and
\* remove_ methods and _load_config_dict with any mapping, every member of
\* allowlist and of blocklist is a compiled pattern whose source compiles.
C2_OnlyCompiledPatterns ==
    \A v \in allowlist \cup blocklist : v.type = "Pattern" /\ Compiles(v.s)

\* a mapping whose allowlist holds a malformed pattern was loaded into a
\* store whose lists are not empty
C2_Witness ==
    /\ call.op = "load_config_dict"
    /\ HasKey(call.value, Name(0, "allowlist"))
    /\ ~AllValid(Get(call.value, Name(0, "allowlist")).l)
    /\ allowlist # {}
    /\ blocklist # {}

(* ---- C3 ---- *)
\* C3 as claimed: after _load_config_dict(m) with the key allowlist (or
\* blocklist) in m, the list is exactly the collection of patterns given in
\* m, also when one of them is malformed.
C3_LoadInstallsVerbatim ==
    call.op = "load_config_dict" =>
        /\ HasKey(call.value, Name(0, "allowlist"))
              => Sources_of(allowlist) = Sources_of(Get(call.value, Name(0, "allowlist")).l)
        /\ HasKey(call.value, Name(0, "blocklist"))
              => Sources_of(blocklist) = Sources_of(Get(call.value, Name(0, "blocklist")).l)

\* C3 amended: _load_config_dict(m) assigns each known key through its
\* property setter: join_on_invite becomes the value given; allowlist (or
\* blocklist) becomes the compiled set of the patterns given when all of
\* them compile, and is left as it was when one of them is malformed.
C3_LoadValidates ==
    [][ call'.op = "load_config_dict" =>
          LET m == call'.value
              has(base) == HasKey(m, Name(0, base))
              val(base) == Get(m, Name(0, base))
          IN  /\ join_on_invite' = IF has("join_on_invite")
                                   THEN val("join_on_invite").b
                                   ELSE join_on_invite
              /\ allowlist' = IF has("allowlist") /\ AllValid(val("allowlist").l)
                              THEN Compiled(val("allowlist").l)
                              ELSE allowlist
              /\ blocklist' = IF has("blocklist") /\ AllValid(val("blocklist").l)
                              THEN Compiled(val("blocklist").l)
                              ELSE blocklist ]_vars

\* a mapping with a malformed allowlist entry and a well-formed blocklist
\* was loaded: the blocklist is installed, the allowlist is not
C3_Witness ==
    /\ call.op = "load_config_dict"
    /\ HasKey(call.value, Name(0, "allowlist"))
    /\ HasKey(call.value, Name(0, "blocklist"))
    /\ ~AllValid(Get(call.value, Name(0, "allowlist")).l)
    /\ Get(call.value, Name(0, "blocklist")).l = { Str(<<"^", "c">>) }
    /\ blocklist = { Pattern(<<"^", "c">>) }
    /\ allowlist = {}

(* ---- C4 ---- *)
\* C4: the document save_toml writes, read back by load_toml into a store
\* made by Config(), gives the saved store again: the same join_on_invite,
\* and allowlist and blocklist with the same pattern sources.
C4_RoundTrip ==
    call.op = "save_toml" =>
        LET config_dict == file.simplematrixbotlib.config
        IN  /\ after_load_join_on_invite(TRUE, config_dict) = join_on_invite
            /\ Sources_of(after_load_allowlist({}, config_dict)) = Sources_of(allowlist)
            /\ Sources_of(after_load_blocklist({}, config_dict)) = Sources_of(blocklist)

(* ---- C5 ---- *)
\* C5 as claimed: the value a setter, add_ or remove_ call returns when a
\* candidate does not compile differs from the value (None) such a call
\* returns when all candidates compile, so the caller can tell the two apart.
C5_ResultTellsFailure ==
    (IsListCall(call) /\ ~AllValid(call.value)) => ret # "None"

\* C5 amended: every setter, add_ and remove_ call returns None, whether or
\* not its candidates compile; a call whose candidates all compile prints
\* nothing, and a call with a candidate that does not compile prints one
\* line naming one such candidate: that line is the only sign of the failure.
C5_ReturnsNoneAndPrints ==
    IsListCall(call) =>
        /\ ret = "None"
        /\ AllValid(call.value) => stdout = {}
        /\ ~AllValid(call.value) =>
              \E v \in call.value : ~CompileOk(v) /\ stdout = { v.s }

\* blocklist = {"b[", "*a"} was refused: None came back, one line was printed
C5_Witness ==
    /\ call.op = "blocklist_setter"
    /\ call.value = { Str(<<"b", "[">>), Str(<<"*", "a">>) }
    /\ ret = "None"
    /\ stdout = { <<"*", "a">> }

(* ---- C6 ---- *)
\* C6: is_authorized(identifier) is false whenever the identifier matches a
\* blocklist pattern, also when it matches an allowlist pattern; otherwise
\* it is true exactly when the allowlist is empty or the identifier matches
\* an allowlist pattern.
C6_BlocklistPrecedence ==
    call.op = "is_authorized" =>
        LET blocked == \E p \in blocklist : Search(p, call.value)
            allowed == \E p \in allowlist : Search(p, call.value)
        IN  /\ blocked => ret = "False"
            /\ ~blocked => (ret = "True" <=> (allowlist = {} \/ allowed))

\* "ca" was asked about while it matched the allowlist pattern "a.*" and the
\* blocklist pattern "^c": it was denied
C6_Witness ==
    /\ call.op = "is_authorized"
    /\ call.value = <<"c", "a">>
    /\ Pattern(<<"a", ".", "*">>) \in allowlist
    /\ Pattern(<<"^", "c">>) \in blocklist
    /\ ret = "False"

(* ---- C7 ---- *)
\* the keys of a mapping that are the logical field names
LogicalItems(m) ==
    { item \in m : item.key \in { Name(0, "join_on_invite"), Name(0, "allowlist"),
                                  Name(0, "blocklist") } }

\* C7: _load_config_dict(m) completes for every mapping, and the keys of m
\* that are not join_on_invite, allowlist or blocklist (the underscore names
\* of the fields included) change nothing: the three fields end as they do
\* when m is loaded without those keys, so the known keys of m are applied
\* and a mapping of unknown keys alone leaves the store as it was.
C7_UnknownKeysIgnored ==
    [][ call'.op = "load_config_dict" =>
          LET m == call'.value
          IN  /\ ret' = "None"
              /\ join_on_invite' = after_load_join_on_invite(join_on_invite, LogicalItems(m))
              /\ allowlist' = after_load_allowlist(allowlist, LogicalItems(m))
              /\ blocklist' = after_load_blocklist(blocklist, LogicalItems(m))
              /\ LogicalItems(m) = {} => UNCHANGED store ]_vars

\* a mapping with the keys _allowlist (a malformed pattern), homeserver and
\* allowlist was loaded: the allowlist of the mapping is installed
C7_Witness ==
    /\ call.op = "load_config_dict"
    /\ HasKey(call.value, Name(1, "allowlist"))
    /\ HasKey(call.value, Name(0, "homeserver"))
    /\ HasKey(call.value, Name(0, "allowlist"))
    /\ Get(call.value, Name(0, "allowlist")).l = { Str(<<"^", "c">>) }
    /\ allowlist = { Pattern(<<"^", "c">>) }

(* ---- C8 ---- *)
\* the lists after the call r made alone on the lists st
ApplyCall(st, r) ==
    CASE r.op = "allowlist_setter" ->
           [st EXCEPT !.allowlist = after_allowlist_setter(@, r.value)]
      [] r.op = "add_allowlist" ->
           [st EXCEPT !.allowlist = after_add_allowlist(@, r.value)]
      [] r.op = "remove_allowlist" ->
           [st EXCEPT !.allowlist = after_remove_allowlist(@, r.value)]
      [] r.op = "blocklist_setter" ->
           [st EXCEPT !.blocklist = after_blocklist_setter(@, r.value)]
      [] r.op = "add_blocklist" ->
           [st EXCEPT !.blocklist = after_add_blocklist(@, r.value)]
      [] r.op = "remove_blocklist" ->
           [st EXCEPT !.blocklist = after_remove_blocklist(@, r.value)]
      [] OTHER -> st

\* the lists the calls of the threads T can leave when made one at a time
RECURSIVE SerialOutcomes(_, _)
SerialOutcomes(T, st) ==
    IF T = {} THEN { st }
    ELSE UNION { SerialOutcomes(T \ {t}, ApplyCall(st, req[t])) : t \in T }

\* C8: when the calls of all threads have returned, the lists are what the
\* calls leave when applied one at a time in some order, so that concurrent
\* add_ calls with valid candidates on one list both take effect.
C8_Serializable ==
    (\A t \in 1..MaxThreads : pc[t] = "done") =>
        [allowlist |-> allowlist, blocklist |-> blocklist]
            \in SerialOutcomes(1..MaxThreads, start)

(* ---- C9 ---- *)
\* C9: add_allowlist(S) and add_blocklist(S) with S of valid patterns leave
\* every pattern of S in the list exactly once, and the same call made again
\* changes nothing.
C9_AddIdempotent ==
    [][ (IsAdd(call'.op) /\ AllValid(call'.value)) =>
          LET before == IF OnAllowlist(call'.op) THEN allowlist ELSE blocklist
              after  == IF OnAllowlist(call'.op) THEN allowlist' ELSE blocklist'
          IN  /\ \A v \in call'.value :
                    Cardinality({ w \in after : w.s = v.s }) = 1
              /\ again' => after = before ]_vars

\* add_allowlist({"a.*", "^c"}) was called twice in a row
C9_Witness ==
    /\ call.op = "add_allowlist"
    /\ again
    /\ call.value = { Str(<<"a", ".", "*">>), Str(<<"^", "c">>) }
    /\ allowlist = { Pattern(<<"a", ".", "*">>), Pattern(<<"^", "c">>) }

(* ---- C10 ---- *)
\* C10: remove_allowlist(S) and remove_blocklist(S) with S of valid patterns
\* return, leave the list as it was less the patterns of S, and leave it
\* unchanged when no pattern of S was in it.
C10_RemoveIsDifference ==
    [][ (call'.op \in { "remove_allowlist", "remove_blocklist" }
            /\ AllValid(call'.value)) =>
          LET before == IF OnAllowlist(call'.op) THEN allowlist ELSE blocklist
              after  == IF OnAllowlist(call'.op) THEN allowlist' ELSE blocklist'
          IN  /\ ret' = "None"
              /\ after = { v \in before : v.s \notin Sources_of(call'.value) }
              /\ (Sources_of(before) \cap Sources_of(call'.value) = {})
                    => after = before ]_vars

\* remove_blocklist({"a.*"}) was called on the blocklist {"^c"}, which is
\* still {"^c"}
C10_Witness ==
    /\ call.op = "remove_blocklist"
    /\ call.value = { Str(<<"a", ".", "*">>) }
    /\ blocklist = { Pattern(<<"^", "c">>) }

====
